---- MODULE Spec2Model ----
\* Model of the Pokemon API resources (src/pokemon/__init__.py) and of the
\* loader that submits them to the pipeline runner (src/pokemon_pipeline.py).
\*
\* One behaviour is one iteration of one resource generator by one consumer.
\* The generator is a Python generator: it only runs between the consumer's
\* next() call and the following yield / return / raise.
\*
\* Encoding of Python values:
\*   Optional[T]   None is <<>>, a value v is <<v>>
\*   list          sequence
\*   dict / JSON   record (keys are the field names)
\*   item names and URLs of a list entry are abstracted to the item's key (an
\*   integer); the API answers a detail request for key k with "id" = k.
EXTENDS Integers, Sequences, FiniteSets, TLC

\* ------------------------------------------------------------------ bounds
\* pokemon_limit / limit values 1..MaxLimit are tried (besides None, 0, -1,
\* the sample limit and one value above MAX_POKEMON_ID)
MaxLimit == 3
\* list endpoints answer with at most MaxList entries, keys 1..MaxList
MaxList == 3
\* only detail requests for keys 1..MaxBad may fail or be malformed
MaxBad == 2

\* ------------------------------------------------------- program constants
MAX_POKEMON_ID == 1010
SAMPLE_LIMIT == 10

Resources == {"pokemon_details", "berries", "abilities", "moves", "types"}
ListResources == Resources \ {"pokemon_details"}

\* ---------------------------------------------------------- Python values
None == <<>>
Some(v) == <<v>>
\* TruthyInt with only None falsy
TruthyIntNoneOnly(o) == o # None
\* truthiness of an Optional[int]: None and 0 are falsy
TruthyInt(o) == o # None /\ o[1] # 0
\* truthiness of a list or of a JSON object-or-null
Truthy(o) == o # <<>>
Min(a, b) == IF a <= b THEN a ELSE b
\* dict.get(key): None when the key is missing
Get(d, k) == IF k \in DOMAIN d THEN d[k] ELSE None
\* a dict without one of its keys
Drop(d, key) == [k \in DOMAIN d \ {key} |-> d[k]]

VARIABLES
    caller,        \* "resource": called directly; "load": through load()
    resource,      \* the category iterated
    limit,         \* Optional[int] argument of pokemon_details
    pokemon_limit, \* Optional[int] argument of load (None for a direct call)
    pc,            \* generator position
    running,       \* TRUE while control is inside the generator
    asked,         \* number of next() calls the consumer made
    pos,           \* number of loop iterations entered
    list_requests, \* number of list-endpoint requests issued
    list_results,  \* Optional[list]: "results" of the list response
    requests,      \* keys of the detail requests issued, in order
    list_failed,   \* TRUE iff the list request raised RequestException
    failed,        \* keys whose detail request raised RequestException
    malformed,     \* keys whose 2xx detail payload lacked a key the record reads
    response,      \* Optional[payload] of the last 2xx detail response
    delayed,       \* TRUE iff time.sleep ran since the last detail request
    yielded,       \* Optional[record]: the record at the current yield
    out,           \* "id" of every record the consumer received, in order
    \* the loaders (src/pokemon_pipeline.py, src/chess_pipeline.py)
    entry,         \* the function called: "pokemon.load", "chess.load",
                   \* "pokemon.cloud_run_handler", "chess.cloud_run_handler"
    env,           \* Optional[record]: the environment a handler reads
    today,         \* datetime.now() as [year, month, day]
    args,          \* Optional[record]: the arguments load is called with
    lpc,           \* loader position
    source_args,   \* Optional[record]: the arguments chess source() got
    submitted,     \* Optional: what pipeline.run received
    exc,           \* Optional[str]: the exception load raised
    log,           \* the handler's outcome messages printed, in order
    propagated     \* Optional[str]: the exception that left the entry point

gen_vars == <<caller, resource, limit, pokemon_limit, pc, running,
              asked, pos, list_requests, list_results, requests, list_failed,
              failed, malformed, response, delayed, yielded, out>>

loader_vars == <<entry, env, today, args, lpc, source_args, submitted, exc,
                 log, propagated>>

vars == <<gen_vars, loader_vars>>

\* ------------------------------------------------- the API's JSON payloads
\* Variant of a well-formed detail payload: "full" carries the optional
\* substructure (a berry's item, effect_entries with two entries, all four
\* sprites), "bare" does not (item null, effect_entries empty, only the
\* front_default sprite key).
Variants == {"full", "bare"}

EffectEntries(v) ==
    IF v = "full"
    THEN << [effect |-> "first effect", short_effect |-> "first short"],
            [effect |-> "second effect", short_effect |-> "second short"] >>
    ELSE << >>

Named(n) == [name |-> n]

PokemonData(k, v) ==
    [ id |-> k, name |-> k, height |-> 7, weight |-> 69,
      base_experience |-> 64, is_default |-> TRUE, order |-> k,
      species |-> Named(k),
      types |-> << [type |-> Named("grass")], [type |-> Named("poison")] >>,
      abilities |-> << [ability |-> Named("overgrow")] >>,
      moves |-> << [move |-> Named("tackle")], [move |-> Named("growl")] >>,
      stats |-> << [stat |-> Named("hp"), base_stat |-> 45],
                   [stat |-> Named("speed"), base_stat |-> 49] >>,
      sprites |-> IF v = "full"
                  THEN [ front_default |-> Some("front.png"),
                         back_default |-> Some("back.png"),
                         front_shiny |-> Some("front_shiny.png"),
                         back_shiny |-> Some("back_shiny.png") ]
                  ELSE [ front_default |-> None ] ]

BerryData(k, v) ==
    [ id |-> k, name |-> k, growth_time |-> 3, max_harvest |-> 5,
      natural_gift_power |-> 60, size |-> 20, smoothness |-> 25,
      soil_dryness |-> 15, firmness |-> Named("soft"),
      flavors |-> << [flavor |-> Named("spicy"), potency |-> 10],
                     [flavor |-> Named("dry"), potency |-> 0] >>,
      item |-> IF v = "full" THEN Some(Named("cheri-berry")) ELSE None ]

AbilityData(k, v) ==
    [ id |-> k, name |-> k, is_main_series |-> TRUE,
      generation |-> Named("generation-iii"),
      effect_entries |-> EffectEntries(v),
      pokemon |-> << [pokemon |-> Named("gloom")] >> ]

MoveData(k, v) ==
    [ id |-> k, name |-> k, accuracy |-> 100, effect_chance |-> 10,
      pp |-> 35, priority |-> 0, power |-> 40,
      damage_class |-> Named("physical"), type |-> Named("normal"),
      generation |-> Named("generation-i"),
      effect_entries |-> EffectEntries(v) ]

TypeData(k, v) ==
    [ id |-> k, name |-> k, generation |-> Named("generation-i"),
      damage_relations |->
        [ double_damage_from |-> << Named("fighting") >>,
          double_damage_to |-> << >>,
          half_damage_from |-> << >>,
          half_damage_to |-> << Named("rock"), Named("steel") >>,
          no_damage_from |-> << Named("ghost") >>,
          no_damage_to |-> << Named("ghost") >> ],
      pokemon |-> << [pokemon |-> Named("pidgey")] >> ]

DetailData(r, k, v) ==
    CASE r = "pokemon_details" -> PokemonData(k, v)
      [] r = "berries" -> BerryData(k, v)
      [] r = "abilities" -> AbilityData(k, v)
      [] r = "moves" -> MoveData(k, v)
      [] r = "types" -> TypeData(k, v)

\* The key a malformed (2xx, but incomplete) payload of category r lacks.
MissingKey(r) ==
    CASE r = "pokemon_details" -> "species"
      [] r = "berries" -> "firmness"
      [] r = "abilities" -> "generation"
      [] r = "moves" -> "damage_class"
      [] r = "types" -> "damage_relations"

MalformedData(r, k, v) == Drop(DetailData(r, k, v), MissingKey(r))

\* ------------------------------------------------------------- flattening
\* The keys the yield expression of category r subscripts (a missing one
\* raises KeyError).
RequiredKeys(r) ==
    CASE r = "pokemon_details" ->
           {"id", "name", "height", "weight", "base_experience", "is_default",
            "order", "species", "types", "abilities", "moves", "stats",
            "sprites"}
      [] r = "berries" ->
           {"id", "name", "growth_time", "max_harvest", "natural_gift_power",
            "size", "smoothness", "soil_dryness", "firmness", "flavors",
            "item"}
      [] r = "abilities" ->
           {"id", "name", "is_main_series", "generation", "effect_entries",
            "pokemon"}
      [] r = "moves" ->
           {"id", "name", "accuracy", "effect_chance", "pp", "priority",
            "power", "damage_class", "type", "generation", "effect_entries"}
      [] r = "types" ->
           {"id", "name", "generation", "damage_relations", "pokemon"}

\* TRUE iff building the record from data raises KeyError.
RaisesKeyError(r, data) == ~(RequiredKeys(r) \subseteq DOMAIN data)

\* [x[outer]["name"] for x in xs]
NamesOf(xs, outer) == [j \in DOMAIN xs |-> xs[j][outer].name]
\* [d["name"] for d in ds]
Names(ds) == [j \in DOMAIN ds |-> ds[j].name]
\* {x[outer]["name"]: x[val] for x in xs}: a later entry overrides an earlier
DictOf(xs, outer, val) ==
    [ n \in {xs[j][outer].name : j \in DOMAIN xs} |->
        LET last == CHOOSE j \in DOMAIN xs :
                      /\ xs[j][outer].name = n
                      /\ \A h \in DOMAIN xs : xs[h][outer].name = n => h <= j
        IN  xs[last][val] ]

pokemon_record(d) ==
    [ id |-> d.id, name |-> d.name, height |-> d.height, weight |-> d.weight,
      base_experience |-> d.base_experience, is_default |-> d.is_default,
      order |-> d.order, species |-> d.species.name,
      types |-> NamesOf(d.types, "type"),
      abilities |-> NamesOf(d.abilities, "ability"),
      moves |-> NamesOf(d.moves, "move"),
      stats |-> DictOf(d.stats, "stat", "base_stat"),
      sprites |-> [ front_default |-> Get(d.sprites, "front_default"),
                    back_default |-> Get(d.sprites, "back_default"),
                    front_shiny |-> Get(d.sprites, "front_shiny"),
                    back_shiny |-> Get(d.sprites, "back_shiny") ] ]

\* berry_record leaving "item" out
berry_record_no_item(d) ==
    [ id |-> d.id, name |-> d.name, growth_time |-> d.growth_time,
      max_harvest |-> d.max_harvest,
      natural_gift_power |-> d.natural_gift_power, size |-> d.size,
      smoothness |-> d.smoothness, soil_dryness |-> d.soil_dryness,
      firmness |-> d.firmness.name,
      flavors |-> DictOf(d.flavors, "flavor", "potency") ]

berry_record(d) ==
    [ id |-> d.id, name |-> d.name, growth_time |-> d.growth_time,
      max_harvest |-> d.max_harvest,
      natural_gift_power |-> d.natural_gift_power, size |-> d.size,
      smoothness |-> d.smoothness, soil_dryness |-> d.soil_dryness,
      firmness |-> d.firmness.name,
      flavors |-> DictOf(d.flavors, "flavor", "potency"),
      item |-> IF Truthy(d.item) THEN Some(d.item[1].name) ELSE None ]

ability_record(d) ==
    [ id |-> d.id, name |-> d.name, is_main_series |-> d.is_main_series,
      generation |-> d.generation.name,
      effect |-> IF Truthy(d.effect_entries)
                 THEN Some(d.effect_entries[1].effect) ELSE None,
      short_effect |-> IF Truthy(d.effect_entries)
                       THEN Some(d.effect_entries[1].short_effect) ELSE None,
      pokemon |-> NamesOf(d.pokemon, "pokemon") ]

move_record(d) ==
    [ id |-> d.id, name |-> d.name, accuracy |-> d.accuracy,
      effect_chance |-> d.effect_chance, pp |-> d.pp,
      priority |-> d.priority, power |-> d.power,
      damage_class |-> d.damage_class.name, type |-> d.type.name,
      generation |-> d.generation.name,
      effect |-> IF Truthy(d.effect_entries)
                 THEN Some(d.effect_entries[1].effect) ELSE None,
      short_effect |-> IF Truthy(d.effect_entries)
                       THEN Some(d.effect_entries[1].short_effect) ELSE None ]

type_record(d) ==
    [ id |-> d.id, name |-> d.name, generation |-> d.generation.name,
      damage_relations |->
        [ double_damage_from |-> Names(d.damage_relations.double_damage_from),
          double_damage_to |-> Names(d.damage_relations.double_damage_to),
          half_damage_from |-> Names(d.damage_relations.half_damage_from),
          half_damage_to |-> Names(d.damage_relations.half_damage_to),
          no_damage_from |-> Names(d.damage_relations.no_damage_from),
          no_damage_to |-> Names(d.damage_relations.no_damage_to) ],
      pokemon |-> NamesOf(d.pokemon, "pokemon") ]

\* The record the yield expression of category r builds from data.
Record(r, d) ==
    CASE r = "pokemon_details" -> pokemon_record(d)
      [] r = "berries" -> berry_record(d)
      [] r = "abilities" -> ability_record(d)
      [] r = "moves" -> move_record(d)
      [] r = "types" -> type_record(d)

\* ------------------------------------------------------------ the inputs
\* limit arguments tried for pokemon_details(limit)
Limits ==
    {None} \cup {Some(n) : n \in -1 .. MaxLimit} \cup {Some(MAX_POKEMON_ID + 1)}
\* pokemon_limit arguments tried for load(resources, pokemon_limit)
LoadLimits ==
    {None} \cup {Some(n) : n \in 0 .. MaxLimit} \cup {Some(SAMPLE_LIMIT)}
\* "results" of a list response: entries with distinct keys, in any order
Lists ==
    { l \in UNION { [1 .. n -> 1 .. MaxList] : n \in 0 .. MaxList } :
        \A a, b \in DOMAIN l : a # b => l[a] # l[b] }
\* keys whose detail request may fail or come back malformed
BadItems == 1 .. MaxBad

\* --------------------------------------------------------- the generators
\* max_id without the min: limit or MAX_POKEMON_ID
max_id_no_cap(l) == IF TruthyInt(l) THEN l[1] ELSE MAX_POKEMON_ID

\* max_id = min(limit or MAX_POKEMON_ID, MAX_POKEMON_ID)
max_id(l) ==
    Min(IF TruthyInt(l) THEN l[1] ELSE MAX_POKEMON_ID, MAX_POKEMON_ID)

\* number of iterations of the for loop: len(range(1, max_id + 1)), or the
\* number of list entries
NumItems ==
    IF resource = "pokemon_details"
    THEN IF max_id(limit) > 0 THEN max_id(limit) ELSE 0
    ELSE Len(list_results)

\* Item with the list walked from its end
ItemReversed(k) ==
    IF resource = "pokemon_details" THEN k
    ELSE list_results[Len(list_results) + 1 - k]

\* the key of the k-th loop iteration
Item(k) ==
    IF resource = "pokemon_details" THEN k ELSE list_results[k]

\* load: if "pokemon_details" in resources and pokemon_limit, the limited
\* resource is passed to with_resources as a keyword argument;
\* with_resources takes resource names as positional arguments only, so the
\* call raises TypeError and load ends before pipeline.run.
WithResourcesRaises(resources, pl) ==
    "pokemon_details" \in resources /\ TruthyInt(pl)

\* no loader function is being followed
LoaderIdle ==
    /\ entry = "none"
    /\ env = None
    /\ today = [year |-> 2024, month |-> 1, day |-> 1]
    /\ args = None
    /\ lpc = "idle"
    /\ source_args = None
    /\ submitted = None
    /\ exc = None
    /\ log = << >>
    /\ propagated = None

Init ==
    /\ caller \in {"resource", "load"}
    /\ resource \in Resources
    /\ IF caller = "resource"
       THEN /\ limit \in IF resource = "pokemon_details" THEN Limits ELSE {None}
            /\ pokemon_limit = None
               ELSE /\ limit = None
            /\ pokemon_limit \in
                 {pl \in LoadLimits : ~WithResourcesRaises({resource}, pl)}
    /\ pc = "start"
    /\ running = FALSE
    /\ asked = 0
    /\ pos = 0
    /\ list_requests = 0
    /\ list_results = << >>
    /\ requests = << >>
    /\ list_failed = FALSE
    /\ failed = {}
    /\ malformed = {}
    /\ response = None
    /\ delayed = FALSE
    /\ yielded = None
    /\ out = << >>
    /\ LoaderIdle

\* The consumer asks for the next record: the generator starts, or resumes
\* after its yield.
ConsumerNext ==
    /\ ~running
    /\ pc \in {"start", "yield"}
    /\ running' = TRUE
    /\ asked' = asked + 1
    /\ yielded' = None
    /\ response' = None
    /\ pc' = IF pc = "yield" THEN "sleep"
             ELSE IF resource = "pokemon_details" THEN "loop" ELSE "list"
    /\ UNCHANGED <<caller, resource, limit, pokemon_limit, pos,
                   list_requests, list_results, requests, list_failed,
                   failed, malformed, delayed, out>>
    /\ UNCHANGED loader_vars

\* The consumer stops iterating and closes the generator.
Close ==
    /\ ~running
    /\ pc \in {"start", "yield"}
    /\ pc' = "closed"
    /\ yielded' = None
    /\ response' = None
    /\ UNCHANGED <<caller, resource, limit, pokemon_limit,
                   running, asked, pos, list_requests, list_results,
                   requests, list_failed, failed, malformed,
                   delayed, out>>
    /\ UNCHANGED loader_vars

\* ListRequestFails without the outer handler: the RequestException leaves
\* the generator.
ListRequestFailsRaising ==
    /\ running
    /\ pc = "list"
    /\ list_requests' = list_requests + 1
    /\ pc' = "raised"
    /\ running' = FALSE
    /\ list_failed' = TRUE
    /\ UNCHANGED <<caller, resource, limit, pokemon_limit, asked,
                   pos, list_results, requests, failed, malformed, response,
                   delayed, yielded, out>>
    /\ UNCHANGED loader_vars

\* requests.get of the list endpoint raises RequestException (network error,
\* or a non-2xx status through raise_for_status): the outer handler prints
\* and the generator returns.
ListRequestFails ==
    /\ running
    /\ pc = "list"
    /\ list_requests' = list_requests + 1
    /\ pc' = "done"
    /\ running' = FALSE
    /\ list_failed' = TRUE
    /\ UNCHANGED <<caller, resource, limit, pokemon_limit, asked,
                   pos, list_results, requests, failed, malformed, response,
                   delayed, yielded, out>>
    /\ UNCHANGED loader_vars

\* The list response is 2xx but has no "results" key: list["results"] raises
\* KeyError, which no handler catches.
ListKeyError ==
    /\ running
    /\ pc = "list"
    /\ list_requests' = list_requests + 1
    /\ pc' = "raised"
    /\ running' = FALSE
    /\ UNCHANGED <<caller, resource, limit, pokemon_limit, asked,
                   pos, list_results, requests, list_failed, failed,
                   malformed, response, delayed, yielded, out>>
    /\ UNCHANGED loader_vars

\* The list response is 2xx and carries "results".
ListRequestOk ==
    /\ running
    /\ pc = "list"
    /\ list_requests' = list_requests + 1
    /\ \E l \in Lists : list_results' = l
    /\ pc' = "loop"
    /\ UNCHANGED <<caller, resource, limit, pokemon_limit,
                   running, asked, pos, requests, list_failed, failed,
                   malformed, response, delayed, yielded, out>>
    /\ UNCHANGED loader_vars

\* The for loop has no further item: the generator returns.
LoopEnds ==
    /\ running
    /\ pc = "loop"
    /\ pos = NumItems
    /\ pc' = "done"
    /\ running' = FALSE
    /\ UNCHANGED <<caller, resource, limit, pokemon_limit, asked,
                   pos, list_requests, list_results, requests, list_failed,
                   failed, malformed, response, delayed, yielded, out>>
    /\ UNCHANGED loader_vars

\* The loop takes its next item and requests.get is called for it.
IssueDetailRequest ==
    /\ running
    /\ pc = "loop"
    /\ pos < NumItems
    /\ pos' = pos + 1
    /\ requests' = Append(requests, Item(pos + 1))
    /\ delayed' = FALSE

\* DetailRequestFails with the handler leaving the loop instead of
\* continuing.
DetailRequestFailsBreak ==
    /\ IssueDetailRequest
    /\ Item(pos + 1) \in BadItems
    /\ failed' = failed \cup {Item(pos + 1)}
    /\ pc' = "done"
    /\ running' = FALSE
    /\ UNCHANGED <<caller, resource, limit, pokemon_limit, asked,
                   list_requests, list_results, list_failed, malformed,
                   response, yielded, out>>
    /\ UNCHANGED loader_vars

\* DetailRequestFails with the handler requesting the same item again.
DetailRequestFailsRetry ==
    /\ running
    /\ pc = "loop"
    /\ pos < NumItems
    /\ Item(pos + 1) \in BadItems
    /\ requests' = Append(requests, Item(pos + 1))
    /\ delayed' = FALSE
    /\ failed' = failed \cup {Item(pos + 1)}
    /\ pc' = "loop"
    /\ UNCHANGED <<caller, resource, limit, pokemon_limit,
                   running, asked, pos, list_requests, list_results,
                   list_failed, malformed, response, yielded, out>>
    /\ UNCHANGED loader_vars

\* The detail request raises RequestException: the inner handler prints and
\* continues with the next item.
DetailRequestFails ==
    /\ IssueDetailRequest
    /\ Item(pos + 1) \in BadItems
    /\ failed' = failed \cup {Item(pos + 1)}
    /\ pc' = "loop"
    /\ UNCHANGED <<caller, resource, limit, pokemon_limit,
                   running, asked, list_requests, list_results, list_failed,
                   malformed, response, yielded, out>>
    /\ UNCHANGED loader_vars

\* The payloads a 2xx detail response for key k may carry.
Payloads(k) ==
    {DetailData(resource, k, v) : v \in Variants}
      \cup (IF k \in BadItems
            THEN {MalformedData(resource, k, v) : v \in Variants}
            ELSE {})

\* The detail response is 2xx but the yield expression raises KeyError,
\* which is not a RequestException: it leaves the generator.
DetailKeyError ==
    /\ IssueDetailRequest
    /\ \E d \in Payloads(Item(pos + 1)) :
         /\ RaisesKeyError(resource, d)
         /\ response' = Some(d)
    /\ malformed' = malformed \cup {Item(pos + 1)}
    /\ pc' = "raised"
    /\ running' = FALSE
    /\ UNCHANGED <<caller, resource, limit, pokemon_limit, asked,
                   list_requests, list_results, list_failed, failed, yielded,
                   out>>
    /\ UNCHANGED loader_vars

\* DetailYields without the suspension: the record is handed over and the
\* generator runs on.
DetailYieldsEager ==
    /\ IssueDetailRequest
    /\ \E d \in Payloads(Item(pos + 1)) :
         /\ ~RaisesKeyError(resource, d)
         /\ response' = Some(d)
         /\ yielded' = Some(Record(resource, d))
         /\ out' = Append(out, Record(resource, d).id)
    /\ pc' = "sleep"
    /\ UNCHANGED <<caller, resource, limit, pokemon_limit,
                   running, asked, list_requests, list_results, list_failed,
                   failed, malformed>>
    /\ UNCHANGED loader_vars

\* The detail response is 2xx and well formed: the record is yielded and the
\* generator is suspended at the yield.
DetailYields ==
    /\ IssueDetailRequest
    /\ \E d \in Payloads(Item(pos + 1)) :
         /\ ~RaisesKeyError(resource, d)
         /\ response' = Some(d)
         /\ yielded' = Some(Record(resource, d))
         /\ out' = Append(out, Record(resource, d).id)
    /\ pc' = "yield"
    /\ running' = FALSE
    /\ UNCHANGED <<caller, resource, limit, pokemon_limit, asked,
                   list_requests, list_results, list_failed, failed,
                   malformed>>
    /\ UNCHANGED loader_vars

\* Resumed after the yield: time.sleep(0.1), then back to the loop.
Sleep ==
    /\ running
    /\ pc = "sleep"
    /\ delayed' = TRUE
    /\ pc' = "loop"
    /\ UNCHANGED <<caller, resource, limit, pokemon_limit,
                   running, asked, pos, list_requests, list_results,
                   requests, list_failed, failed, malformed, response,
                   yielded, out>>
    /\ UNCHANGED loader_vars

Next ==
    \/ ConsumerNext
    \/ Close
    \/ ListRequestFails
    \/ ListKeyError
    \/ ListRequestOk
    \/ LoopEnds
    \/ DetailRequestFails
    \/ DetailKeyError
    \/ DetailYields
    \/ Sleep

Spec == Init /\ [][Next]_vars

\* ------------------------------------------------------------ the loaders
\* Encoding of the loaders' strings: a month string "YYYY/MM" is <<YYYY, MM>>
\* and the empty string is << >>; player and resource names are strings.

\* years datetime.now() is drawn from: 2024 .. 2024 + MaxYears
MaxYears == 1
\* player lists of up to MaxPlayers names are tried
MaxPlayers == 1

\* timedelta(days=90)
DEFAULT_RANGE_DAYS == 90

DEFAULT_PLAYERS ==
    << "magnuscarlsen", "rpragchess", "vincentkeymer", "dommarajugukesh" >>

\* truthiness of an Optional[str] or Optional[list]: None, "" and [] are falsy
TruthyOpt(o) == o # None /\ o[1] # << >>

\* days since 1970-01-01 of a proleptic Gregorian date (datetime arithmetic)
days_from_civil(y, m, d) ==
    LET yy == IF m <= 2 THEN y - 1 ELSE y
        era == yy \div 400
        yoe == yy - era * 400
        mp == IF m > 2 THEN m - 3 ELSE m + 9
        doy == (153 * mp + 2) \div 5 + d - 1
        doe == yoe * 365 + yoe \div 4 - yoe \div 100 + doy
    IN  era * 146097 + doe - 719468

\* the date that lies z days after 1970-01-01
civil_from_days(z) ==
    LET zz == z + 719468
        era == zz \div 146097
        doe == zz - era * 146097
        yoe == (doe - doe \div 1460 + doe \div 36524 - doe \div 146096) \div 365
        doy == doe - (365 * yoe + yoe \div 4 - yoe \div 100)
        mp == (5 * doy + 2) \div 153
        d == doy - (153 * mp + 2) \div 5 + 1
        m == IF mp < 10 THEN mp + 3 ELSE mp - 9
        y == yoe + era * 400 + (IF m <= 2 THEN 1 ELSE 0)
    IN  [year |-> y, month |-> m, day |-> d]

\* date - timedelta(days=n)
minus_days(date, n) ==
    civil_from_days(days_from_civil(date.year, date.month, date.day) - n)

\* date.strftime("%Y/%m")
strftime_month(date) == << date.year, date.month >>

\* chess load: players = default players if not players
chess_players(players) ==
    IF ~TruthyOpt(players) THEN DEFAULT_PLAYERS ELSE players[1]

\* chess_months that never keeps the supplied bounds
chess_months_always_default(start_month, end_month, now) ==
    [ start_month |-> strftime_month(minus_days(now, DEFAULT_RANGE_DAYS)),
      end_month |-> strftime_month(now) ]

\* chess_months that replaces only the bound that is missing
chess_months_fill_missing(start_month, end_month, now) ==
    [ start_month |-> IF TruthyOpt(start_month) THEN start_month[1]
                      ELSE strftime_month(minus_days(now, DEFAULT_RANGE_DAYS)),
      end_month |-> IF TruthyOpt(end_month) THEN end_month[1]
                    ELSE strftime_month(now) ]

\* chess load: if not start_month or not end_month, both bounds become the
\* defaults (the month 90 days ago, the current month)
chess_months(start_month, end_month, now) ==
    IF ~TruthyOpt(start_month) \/ ~TruthyOpt(end_month)
    THEN [ start_month |-> strftime_month(minus_days(now, DEFAULT_RANGE_DAYS)),
           end_month |-> strftime_month(now) ]
    ELSE [ start_month |-> start_month[1], end_month |-> end_month[1] ]

\* pokemon load: the sequences handed to pipeline.run, each with the limit
\* applied to it (None: unlimited).  pipeline.run is reached only when load
\* did not apply the limit, and with_resources(*resources) selects the
\* requested names.
pokemon_submitted(resources, pl) == [n \in resources |-> None]

\* int(s) for the POKEMON_LIMIT strings tried
int_of(s) ==
    CASE s = "0" -> 0
      [] s = "2" -> 2
      [] s = "10" -> 10

\* pokemon cloud_run_handler: the arguments of load from the environment
pokemon_handler_args(e) ==
    [ resources |-> IF e.POKEMON_RESOURCES = None THEN {"pokemon_details"}
                    ELSE e.POKEMON_RESOURCES[1],
      pokemon_limit |-> IF e.POKEMON_LIMIT # None /\ e.POKEMON_LIMIT[1] # ""
                        THEN Some(int_of(e.POKEMON_LIMIT[1])) ELSE None ]

\* chess cloud_run_handler: the arguments of load from the environment
chess_handler_args(e) ==
    [ resources |-> IF e.CHESS_RESOURCES = None
                    THEN {"players_profiles", "players_online_status"}
                    ELSE e.CHESS_RESOURCES[1],
      players |-> IF TruthyOpt(e.CHESS_PLAYERS) THEN Some(e.CHESS_PLAYERS[1])
                  ELSE None,
      start_month |-> e.CHESS_START_MONTH,
      end_month |-> e.CHESS_END_MONTH ]

\* ----------------------------------------------------- the loaders' inputs
\* dates datetime.now() may return
Todays ==
    { t \in [year : 2024 .. 2024 + MaxYears, month : 1 .. 12, day : {1, 28, 31}] :
        civil_from_days(days_from_civil(t.year, t.month, t.day)) = t }
\* Optional[str] month arguments: None, "", "2024/01", "2024/03"
MonthArgs == {None, Some(<< >>), Some(<< 2024, 1 >>), Some(<< 2024, 3 >>)}
\* lists of player names
PlayerLists ==
    UNION { [1 .. n -> {"hikaru", "magnuscarlsen"}] : n \in 0 .. MaxPlayers }
\* pokemon_limit arguments of load: None, 0, 1..MaxLimit, the sample's 10
PokemonLimitArgs ==
    {None, Some(0)} \cup {Some(n) : n \in 1 .. MaxLimit} \cup {Some(SAMPLE_LIMIT)}
\* what pipeline.run may raise: a failure of the run (an Exception), or a
\* BaseException that is no Exception
Exceptions == {"PipelineStepFailed", "KeyboardInterrupt"}
IsException(e) == e # "KeyboardInterrupt"
Handlers == {"pokemon.cloud_run_handler", "chess.cloud_run_handler"}

PokemonArgs ==
    [ resources : SUBSET Resources \ {{}}, pokemon_limit : PokemonLimitArgs ]
ChessArgs ==
    [ resources : {{"players_profiles", "players_games",
                    "players_online_status"}},
      players : {None} \cup {Some(l) : l \in PlayerLists},
      start_month : MonthArgs, end_month : MonthArgs ]
PokemonEnvs ==
    [ POKEMON_RESOURCES : {None, Some({"berries", "moves"}),
                           Some({"pokemon_details", "types"})},
      POKEMON_LIMIT : {None, Some(""), Some("0"), Some("2"), Some("10")} ]
ChessEnvs ==
    [ CHESS_RESOURCES : {None},
      CHESS_PLAYERS : {None} \cup {Some(l) : l \in PlayerLists},
      CHESS_START_MONTH : MonthArgs, CHESS_END_MONTH : MonthArgs ]

\* the generators are not iterated while a loader is followed
GeneratorIdle ==
    /\ caller = "load"
    /\ resource = "pokemon_details"
    /\ limit = None
    /\ pokemon_limit = None
    /\ pc = "start"
    /\ running = FALSE
    /\ asked = 0
    /\ pos = 0
    /\ list_requests = 0
    /\ list_results = << >>
    /\ requests = << >>
    /\ list_failed = FALSE
    /\ failed = {}
    /\ malformed = {}
    /\ response = None
    /\ delayed = FALSE
    /\ yielded = None
    /\ out = << >>

LoadInit ==
    /\ GeneratorIdle
    /\ entry \in {"pokemon.load", "chess.load"} \cup Handlers
    /\ today \in IF entry \in {"chess.load", "chess.cloud_run_handler"}
                 THEN Todays ELSE {[year |-> 2024, month |-> 1, day |-> 1]}
    /\ env \in CASE entry = "pokemon.cloud_run_handler" ->
                      {Some(e) : e \in PokemonEnvs}
                 [] entry = "chess.cloud_run_handler" ->
                      {Some(e) : e \in ChessEnvs}
                 [] OTHER -> {None}
    /\ args \in CASE entry = "pokemon.load" -> {Some(a) : a \in PokemonArgs}
                  [] entry = "chess.load" -> {Some(a) : a \in ChessArgs}
                  [] OTHER -> {None}
    /\ lpc = IF entry \in Handlers THEN "handler" ELSE "load"
    /\ source_args = None
    /\ submitted = None
    /\ exc = None
    /\ log = << >>
    /\ propagated = None

\* cloud_run_handler reads the environment and calls load.
HandlerCallsLoad ==
    /\ lpc = "handler"
    /\ args' = Some(IF entry = "pokemon.cloud_run_handler"
                    THEN pokemon_handler_args(env[1])
                    ELSE chess_handler_args(env[1]))
    /\ lpc' = "load"
    /\ UNCHANGED <<entry, env, today, source_args, submitted, exc, log,
                   propagated>>
    /\ UNCHANGED gen_vars

\* pokemon load with "pokemon_details" requested and a limit given:
\* add_limit is called, then with_resources(pokemon_details=...) raises
\* TypeError; load has no handler and pipeline.run is never called.
PokemonLoadRaisesTypeError ==
    /\ lpc = "load"
    /\ entry \in {"pokemon.load", "pokemon.cloud_run_handler"}
    /\ WithResourcesRaises(args[1].resources, args[1].pokemon_limit)
    /\ exc' = Some("TypeError")
    /\ propagated' = IF entry \in Handlers THEN None ELSE Some("TypeError")
    /\ lpc' = IF entry \in Handlers THEN "load_raised" ELSE "done"
    /\ UNCHANGED <<entry, env, today, args, source_args, submitted, log>>
    /\ UNCHANGED gen_vars

\* pokemon load up to its call of pipeline.run
PokemonLoadSubmits ==
    /\ lpc = "load"
    /\ entry \in {"pokemon.load", "pokemon.cloud_run_handler"}
    /\ ~WithResourcesRaises(args[1].resources, args[1].pokemon_limit)
    /\ submitted' = Some(pokemon_submitted(args[1].resources,
                                           args[1].pokemon_limit))
    /\ lpc' = "run"
    /\ UNCHANGED <<entry, env, today, args, source_args, exc, log, propagated>>
    /\ UNCHANGED gen_vars

\* chess load up to its call of pipeline.run
ChessLoadSubmits ==
    /\ lpc = "load"
    /\ entry \in {"chess.load", "chess.cloud_run_handler"}
    /\ source_args' =
         Some([ players |-> chess_players(args[1].players),
                start_month |-> chess_months(args[1].start_month,
                                             args[1].end_month,
                                             today).start_month,
                end_month |-> chess_months(args[1].start_month,
                                           args[1].end_month,
                                           today).end_month ])
    /\ submitted' = Some(args[1].resources)
    /\ lpc' = "run"
    /\ UNCHANGED <<entry, env, today, args, exc, log, propagated>>
    /\ UNCHANGED gen_vars

\* pipeline.run returns; load prints the load information and returns.
LoadReturns ==
    /\ lpc = "run"
    /\ lpc' = IF entry \in Handlers THEN "load_returned" ELSE "done"
    /\ UNCHANGED <<entry, env, today, args, source_args, submitted, exc, log,
                   propagated>>
    /\ UNCHANGED gen_vars

\* pipeline.run raises; load has no handler, the exception leaves load.
LoadRaises ==
    /\ lpc = "run"
    /\ \E e \in Exceptions :
         /\ exc' = Some(e)
         /\ propagated' = IF entry \in Handlers THEN None ELSE Some(e)
    /\ lpc' = IF entry \in Handlers THEN "load_raised" ELSE "done"
    /\ UNCHANGED <<entry, env, today, args, source_args, submitted, log>>
    /\ UNCHANGED gen_vars

\* cloud_run_handler after load returned: the success message is printed.
HandlerSucceeds ==
    /\ lpc = "load_returned"
    /\ log' = Append(log, [msg |-> "Cloud Run execution completed successfully!",
                           e |-> None])
    /\ lpc' = "done"
    /\ UNCHANGED <<entry, env, today, args, source_args, submitted, exc,
                   propagated>>
    /\ UNCHANGED gen_vars

\* HandlerExcept without the raise
HandlerExceptSwallows ==
    /\ lpc = "load_raised"
    /\ IsException(exc[1])
    /\ log' = Append(log, [msg |-> "Cloud Run execution failed", e |-> exc])
    /\ lpc' = "done"
    /\ UNCHANGED <<entry, env, today, args, source_args, submitted, exc,
                   propagated>>
    /\ UNCHANGED gen_vars

\* cloud_run_handler: except Exception as e: print the failure, raise.
HandlerExcept ==
    /\ lpc = "load_raised"
    /\ IsException(exc[1])
    /\ log' = Append(log, [msg |-> "Cloud Run execution failed", e |-> exc])
    /\ propagated' = exc
    /\ lpc' = "done"
    /\ UNCHANGED <<entry, env, today, args, source_args, submitted, exc>>
    /\ UNCHANGED gen_vars

\* cloud_run_handler: what load raised is no Exception; the except clause
\* does not match and the exception passes through.
HandlerPassesThrough ==
    /\ lpc = "load_raised"
    /\ ~IsException(exc[1])
    /\ propagated' = exc
    /\ lpc' = "done"
    /\ UNCHANGED <<entry, env, today, args, source_args, submitted, exc, log>>
    /\ UNCHANGED gen_vars

LoadNext ==
    \/ HandlerCallsLoad
    \/ PokemonLoadRaisesTypeError
    \/ PokemonLoadSubmits
    \/ ChessLoadSubmits
    \/ LoadReturns
    \/ LoadRaises
    \/ HandlerSucceeds
    \/ HandlerExcept
    \/ HandlerPassesThrough

SpecLoad == LoadInit /\ [][LoadNext]_vars

\* ---------------------------------------------------------------- claims
Last(q) == q[Len(q)]
\* range(1, m + 1) as a list
UpTo(m) == [j \in 1 .. m |-> j]
\* the keys of all loop iterations, in loop order
AllItems == [j \in 1 .. NumItems |-> Item(j)]
NotFailed(k) == k \notin failed
\* the detail request for key k neither failed nor came back malformed
Served(k) == k \notin failed /\ k \notin malformed
\* the iteration ran to its end without an exception
Exhausted == pc = "done"

\* C1: a record never appears for an item whose detail request failed; the
\* output holds, in loop order, exactly one record for every item requested
\* whose request succeeded with a well-formed payload; and an exhausted
\* iteration has requested every item, wherever and however many the
\* failures.
C1_FailedItemsSkipped ==
    /\ \A j \in DOMAIN out : out[j] \notin failed
    /\ out = SelectSeq(requests, Served)
    /\ Exhausted => requests = AllItems

C1_Witness ==
    /\ Exhausted
    /\ resource = "berries"
    /\ Len(requests) = 3
    /\ requests[2] \in failed
    /\ out = << requests[1], requests[3] >>

\* C2: when the list request of a list+detail category fails, the sequence
\* ends normally with zero records and no detail request.
C2_ListFailureEmpty ==
    list_failed =>
        /\ resource \in ListResources
        /\ pc = "done"
        /\ list_requests = 1
        /\ requests = << >>
        /\ out = << >>
        /\ yielded = None

C2_Witness == list_failed /\ resource = "types" /\ pc = "done" /\ ~running

\* C3 (as claimed): a 2xx detail payload that lacks a key the record reads
\* never ends the sequence with an exception.
C3_ParseFailureNeverFatal == malformed # {} => pc # "raised"

\* C4 (as claimed): for every integer limit N, pokemon_details(N) yields at
\* most min(N, 1010) records (none for a negative N).
C4_AtMostMinLimitRecords ==
    (resource = "pokemon_details" /\ limit # None) =>
        Len(out) <= (IF Min(limit[1], MAX_POKEMON_ID) < 0 THEN 0
                     ELSE Min(limit[1], MAX_POKEMON_ID))

\* the largest number of records pokemon_details(l) may yield: a limit of
\* None or 0 is no limit
RecordBound(l) ==
    IF l = None \/ l[1] = 0 THEN MAX_POKEMON_ID
    ELSE IF l[1] < 0 THEN 0
    ELSE Min(l[1], MAX_POKEMON_ID)

\* C4 (amended): for every non-zero integer limit N pokemon_details yields at
\* most min(N, 1010) records (none for a negative N) and for a limit of 0 or
\* None at most 1010; the identifiers yielded are strictly ascending, start
\* at 1, do not exceed that bound, and are contiguous except for the IDs
\* whose request failed.
C4_LimitAndAscendingIds ==
    resource = "pokemon_details" =>
        LET m == IF out = << >> THEN 0 ELSE Last(out)
        IN  /\ Len(out) <= RecordBound(limit)
            /\ m <= RecordBound(limit)
            /\ out = SelectSeq(UpTo(m), NotFailed)

C4_Witness ==
    /\ resource = "pokemon_details"
    /\ caller = "resource"
    /\ limit = Some(MAX_POKEMON_ID + 1)
    /\ Exhausted
    /\ failed = {2}
    /\ Len(out) = MAX_POKEMON_ID - 1
    /\ Last(out) = MAX_POKEMON_ID

\* C5 (as claimed): load(["pokemon_details"], pokemon_limit=10) submits the
\* pokemon_details sequence to the pipeline runner, limited to 10 records
\* (at most 10 records, every one with an ID in 1..10).
C5_SampleIdsWithinLimit ==
    (entry = "pokemon.load" /\ lpc = "done"
       /\ args[1] = [ resources |-> {"pokemon_details"},
                      pokemon_limit |-> Some(SAMPLE_LIMIT) ]) =>
        /\ submitted # None
        /\ submitted[1]["pokemon_details"] = Some(SAMPLE_LIMIT)

\* C6 (as claimed): whenever the generator is about to issue a detail request
\* after an earlier one, the 100ms sleep has run since that earlier request,
\* whether it succeeded or failed.
C6_DelayBetweenDetailRequests ==
    (running /\ pc = "loop" /\ pos < NumItems /\ requests # << >>) => delayed

\* position of key k in the list response
IndexOf(k) == CHOOSE j \in DOMAIN list_results : list_results[j] = k

\* C7: in a list+detail category the detail requests issued so far are, in
\* order, those of the first entries of the list response (one per entry,
\* all of them once the iteration is exhausted), and the records yielded are
\* a subsequence of the list in list order.
C7_ListOrder ==
    resource \in ListResources =>
        /\ Len(requests) <= Len(list_results)
        /\ \A j \in DOMAIN requests : requests[j] = list_results[j]
        /\ (Exhausted /\ ~list_failed) => requests = list_results
        /\ \A j \in DOMAIN out : \E h \in DOMAIN list_results : list_results[h] = out[j]
        /\ \A j \in 1 .. Len(out) - 1 : IndexOf(out[j]) < IndexOf(out[j + 1])

C7_Witness ==
    /\ resource = "moves"
    /\ Exhausted
    /\ list_results = << 3, 1, 2 >>
    /\ requests = << 3, 1, 2 >>
    /\ out = << 3, 2 >>

\* C8: nothing is retried and every sequence is bounded: each loop item is
\* requested at most once, a list+detail category issues at most 1 + L
\* requests and pokemon_details at most 1010.
C8_NoRetryBoundedRequests ==
    /\ list_requests <= 1
    /\ Len(requests) <= NumItems
    /\ \A j \in DOMAIN requests : requests[j] = Item(j)
    /\ resource \in ListResources =>
         /\ Cardinality({requests[j] : j \in DOMAIN requests}) = Len(requests)
         /\ list_requests + Len(requests) <= 1 + Len(list_results)
    /\ resource = "pokemon_details" =>
         /\ list_requests = 0
         /\ Len(requests) <= MAX_POKEMON_ID

C8_Witness ==
    /\ resource = "pokemon_details"
    /\ Exhausted
    /\ failed = {1, 2}
    /\ Len(requests) = MAX_POKEMON_ID

\* C9: no request is issued before the consumer asks for the first record,
\* the consumer never receives more records than it asked for, and while the
\* generator is suspended at a yield, or was closed there, the last request
\* issued is the one of the last record yielded.
C9_Lazy ==
    /\ asked = 0 => (list_requests = 0 /\ requests = << >>)
    /\ Len(out) <= asked
    /\ (pc \in {"yield", "closed"} /\ out # << >>) =>
         /\ ~running
         /\ Last(requests) = Last(out)
         /\ Len(requests) = pos
    /\ (pc = "closed" /\ out = << >>) => (list_requests = 0 /\ requests = << >>)

C9_Witness ==
    /\ pc = "closed"
    /\ resource = "berries"
    /\ Len(list_results) = 3
    /\ asked = 1
    /\ Len(requests) = 2
    /\ requests[1] \in failed
    /\ out = << requests[2] >>

\* the field names of a record of category r
DeclaredFields(r) ==
    CASE r = "pokemon_details" ->
           {"id", "name", "height", "weight", "base_experience", "is_default",
            "order", "species", "types", "abilities", "moves", "stats",
            "sprites"}
      [] r = "berries" ->
           {"id", "name", "growth_time", "max_harvest", "natural_gift_power",
            "size", "smoothness", "soil_dryness", "firmness", "flavors",
            "item"}
      [] r = "abilities" ->
           {"id", "name", "is_main_series", "generation", "effect",
            "short_effect", "pokemon"}
      [] r = "moves" ->
           {"id", "name", "accuracy", "effect_chance", "pp", "priority",
            "power", "damage_class", "type", "generation", "effect",
            "short_effect"}
      [] r = "types" ->
           {"id", "name", "generation", "damage_relations", "pokemon"}

\* C10: every record yielded has exactly the declared fields of its
\* category; a berry with a null item has item null, an ability or move with
\* an empty effect_entries has effect and short_effect null, and with a
\* non-empty one they are those of its first entry; a sprite key the payload
\* lacks is null.
C10_DeclaredFieldsAndNulls ==
    yielded # None =>
        LET rec == yielded[1]
            d == response[1]
        IN  /\ DOMAIN rec = DeclaredFields(resource)
            /\ rec.id = Last(requests)
            /\ resource = "berries" =>
                 rec.item = (IF d.item = None THEN None
                             ELSE Some(d.item[1].name))
            /\ resource \in {"abilities", "moves"} =>
                 IF d.effect_entries = << >>
                 THEN rec.effect = None /\ rec.short_effect = None
                 ELSE /\ rec.effect = Some(d.effect_entries[1].effect)
                      /\ rec.short_effect = Some(d.effect_entries[1].short_effect)
            /\ resource = "pokemon_details" =>
                 /\ DOMAIN rec.sprites = {"front_default", "back_default",
                                          "front_shiny", "back_shiny"}
                 /\ \A key \in DOMAIN rec.sprites :
                      rec.sprites[key] = (IF key \in DOMAIN d.sprites
                                          THEN d.sprites[key] ELSE None)

C10_Witness ==
    /\ yielded # None
    /\ resource = "abilities"
    /\ response[1].effect_entries = << >>
    /\ yielded[1].effect = None
    /\ yielded[1].short_effect = None

ChessEntries == {"chess.load", "chess.cloud_run_handler"}
PokemonEntries == {"pokemon.load", "pokemon.cloud_run_handler"}
\* the default bounds chess load computes: the month 90 days ago, this month
DefaultStartMonth == strftime_month(minus_days(today, DEFAULT_RANGE_DAYS))
DefaultEndMonth == strftime_month(today)

\* C11: in the chess loader, whenever start_month and end_month are both
\* non-empty they reach source() unchanged, and when in addition no players
\* are given the source gets the four default players.
C11_BothBoundsReachSource ==
    (entry \in ChessEntries /\ source_args # None
       /\ TruthyOpt(args[1].start_month) /\ TruthyOpt(args[1].end_month)) =>
            /\ source_args[1].start_month = args[1].start_month[1]
            /\ source_args[1].end_month = args[1].end_month[1]
            /\ args[1].players = None =>
                 source_args[1].players = DEFAULT_PLAYERS

C11_Witness ==
    /\ entry = "chess.load"
    /\ args = Some([ resources |-> {"players_profiles", "players_games",
                                    "players_online_status"},
                     players |-> None,
                     start_month |-> Some(<< 2024, 1 >>),
                     end_month |-> Some(<< 2024, 1 >>) ])
    /\ today = [year |-> 2025, month |-> 1, day |-> 28]
    /\ source_args = Some([ players |-> DEFAULT_PLAYERS,
                            start_month |-> << 2024, 1 >>,
                            end_month |-> << 2024, 1 >> ])

SuccessMessage ==
    [msg |-> "Cloud Run execution completed successfully!", e |-> None]

\* C12: when a cloud_run_handler has ended: if load raised, the same
\* exception leaves the handler and the success message was not printed, and
\* if what load raised is an Exception the failure was logged with it; if
\* load returned, the success message was printed and nothing is raised.
C12_HandlerLogsAndReraises ==
    (entry \in Handlers /\ lpc = "done") =>
        IF exc # None
        THEN /\ propagated = exc
             /\ \A j \in DOMAIN log : log[j] # SuccessMessage
             /\ IsException(exc[1]) =>
                  log = << [msg |-> "Cloud Run execution failed", e |-> exc] >>
        ELSE /\ propagated = None
             /\ log = << SuccessMessage >>

C12_Witness ==
    /\ entry = "chess.cloud_run_handler"
    /\ lpc = "done"
    /\ exc = Some("PipelineStepFailed")
    /\ propagated = Some("PipelineStepFailed")
    /\ Len(log) = 1
    /\ log[1].msg = "Cloud Run execution failed"

\* C13 (as claimed): once the pokemon loader is past its selection of the
\* sequences, it has submitted exactly the requested sequences, also when the
\* limit was applied; every sequence other than pokemon_details is
\* unlimited; pokemon_details is limited only when a limit is given, and is
\* limited by pokemon_limit whenever that is a non-zero limit.
C13_LimitOnPokemonDetailsOnly ==
    (entry \in PokemonEntries /\ lpc \notin {"handler", "load"}) =>
        /\ submitted # None
        /\ LET sub == submitted[1]
               pl == args[1].pokemon_limit
           IN  /\ DOMAIN sub = args[1].resources
               /\ \A n \in DOMAIN sub :
                    /\ n # "pokemon_details" => sub[n] = None
                    /\ sub[n] # None => (pl # None /\ sub[n] = pl)
                    /\ (n = "pokemon_details" /\ pl # None /\ pl[1] # 0) =>
                         sub[n] = pl

\* C14: in the chess loader, when exactly one of start_month and end_month
\* is supplied both bounds the source gets are the computed defaults (the
\* month 90 days ago and the current month), whatever the supplied value;
\* an empty players list is replaced by the four default players.
C14_OneBoundDiscarded ==
    (entry \in ChessEntries /\ source_args # None) =>
        /\ (TruthyOpt(args[1].start_month) # TruthyOpt(args[1].end_month)) =>
             /\ source_args[1].start_month = DefaultStartMonth
             /\ source_args[1].end_month = DefaultEndMonth
        /\ args[1].players = Some(<< >>) =>
             source_args[1].players = DEFAULT_PLAYERS

C14_Witness ==
    /\ entry = "chess.load"
    /\ today = [year |-> 2025, month |-> 1, day |-> 28]
    /\ args # None
    /\ args[1].start_month = Some(<< 2024, 3 >>)
    /\ args[1].end_month = None
    /\ args[1].players = Some(<< >>)
    /\ source_args = Some([ players |-> DEFAULT_PLAYERS,
                            start_month |-> << 2024, 10 >>,
                            end_month |-> << 2025, 1 >> ])

\* C15: pokemon_details(limit) requests the IDs 1, 2, ... in ascending
\* order and, once exhausted, has requested exactly 1..M, where M is 1010
\* for a limit of None or 0, min(limit, 1010) for a positive limit, and 0
\* (no request, no record) for a negative limit.
C15_RequestsOneToM ==
    resource = "pokemon_details" =>
        /\ requests = UpTo(Len(requests))
        /\ Len(requests) <= RecordBound(limit)
        /\ Exhausted => Len(requests) = RecordBound(limit)
        /\ (limit # None /\ limit[1] < 0) => (requests = << >> /\ out = << >>)

C15_Witness ==
    /\ resource = "pokemon_details"
    /\ caller = "resource"
    /\ limit = Some(0)
    /\ Exhausted
    /\ requests = UpTo(MAX_POKEMON_ID)

====
